---- MODULE Spec2Model ----
(***************************************************************************)
(* BoundaryBox booking core: the bookings table and the calls made on it   *)
(* by BookingService (createBooking, updateBookingStatus and its           *)
(* wrappers), the pages that issue those calls (booking page, admin        *)
(* bookings page, my-bookings page) and the conflict test of the booking   *)
(* page.  Times of day are "HH:MM" strings, modelled as sequences of       *)
(* character codes so that the page's string comparisons are lexicographic *)
(* as in JavaScript; the SQL function casts them to TIME and compares      *)
(* minutes.  Dates are day numbers.                                        *)
(***************************************************************************)
EXTENDS Integers, Sequences, FiniteSets, TLC

VARIABLES
    bookings,          \* table public.bookings: sequence of rows, id = index
    settings,          \* the system_settings row
    statusDefault,     \* column default of bookings.status (insert sends none)
    calls,             \* createBooking calls, per user: position and locals
    adminView,         \* admin bookings page: status shown per booking id
    now,               \* wall clock, minutes since day 0 00:00
    formData,          \* booking page: gameId, bookingDate, startTime, endTime
    existingBookings,  \* booking page: rows fetched by fetchExistingBookings
    pageSettings,      \* booking page: settings state
    timeError,         \* booking page: timeError state ("" = none)
    selectedGame,      \* booking page: selectedGame state (NoGame = null)
    estimatedCost,     \* booking page: estimatedCost state
    fetches,           \* booking page: fetchExistingBookings requests awaited
    formSettings,      \* settings form: settings state
    errors,            \* settings form: errors state
    settingsTable,     \* table public.system_settings: sequence of rows, id = index
    updates            \* updateSettings calls, per admin: position and locals

vars == <<bookings, settings, statusDefault, calls, adminView, now,
          formData, existingBookings, pageSettings, timeError,
          selectedGame, estimatedCost, fetches, formSettings, errors,
          settingsTable, updates>>

pageVars == <<formData, existingBookings, pageSettings, timeError,
              selectedGame, estimatedCost, fetches>>

formVars == <<formSettings, errors>>

tableVars == <<settingsTable, updates>>

\* Admins with the settings page open
Admins == {"a1", "a2"}

\* updateSettings not running: no payload, no row id read
IdleUpdate == [pc |-> "idle", settings |-> <<>>, existingSettings |-> 0]

----------------------------------------------------------------------------
(* Bounds of the model *)

MaxBookings == 2      \* rows the bookings table may hold
MaxSlot == 2          \* lifecycle requests use the first MaxSlot+1 hours
MaxNow == 2           \* clock ticks taken
MaxRows == 3          \* rows of system_settings
MaxExisting == 2      \* rows in the booking page's existingBookings

(* Program constants *)

MinutesPerDay == 1440        \* 24 * 60
UserCancelHours == 2         \* hard-coded in canCancelBooking

----------------------------------------------------------------------------
(* Strings and times *)

Min(a, b) == IF a < b THEN a ELSE b

\* JavaScript's < on strings: lexicographic by code unit, a proper prefix
\* being smaller.
StrLess(a, b) ==
    \E i \in 1..(Min(Len(a), Len(b)) + 1) :
        /\ \A j \in 1..(i - 1) : a[j] = b[j]
        /\ \/ i > Len(a) /\ i <= Len(b)
           \/ i <= Len(a) /\ i <= Len(b) /\ a[i] < b[i]

StrLeq(a, b) == a = b \/ StrLess(a, b)

\* n.toString().padStart(2, '0') for 0 <= n < 100, as character codes
PadStart2(n) == <<48 + (n \div 10), 48 + (n % 10)>>

\* `${hour.toString().padStart(2, '0')}:${minute.toString().padStart(2, '0')}`
FormatTime(minutes) ==
    PadStart2(minutes \div 60) \o <<58>> \o PadStart2(minutes % 60)

\* timeString.split(':').map(Number), then hour * 60 + minute
ParseTime(str) ==
    ((str[1] - 48) * 10 + (str[2] - 48)) * 60 + (str[4] - 48) * 10 + (str[5] - 48)

EmptyString == <<>>

----------------------------------------------------------------------------
(* Domain values *)

Users == {"u1", "u2"}
Games == {"cricket"}
Dates == {1}

Active == {"pending", "confirmed"}
Terminal == {"canceled", "no_show", "completed"}
Statuses == Active \cup Terminal

\* `notes` values: null, or one of the texts the callers pass
NullNotes == "null"
Undefined == "undefined"

\* SettingsService defaults (getSettings / resetToDefaults); durations and
\* the slot are kept in minutes (hours * 60), the deadline in hours.
DefaultSettings ==
    [opening_time |-> FormatTime(6 * 60), closing_time |-> FormatTime(22 * 60),
     is_24_7 |-> FALSE, advance_booking_days |-> 7,
     require_admin_approval |-> TRUE, booking_slot_duration |-> 30,
     min_booking_duration |-> 60, max_booking_duration |-> 240,
     cancellation_deadline |-> 2]

\* .select(...).single(): the id of the row when the table holds exactly
\* one, else no data (0)
single(table) == IF Len(table) = 1 THEN 1 ELSE 0

\* getSettings: the row, or the default settings when .single() gives none
getSettings(table) ==
    IF single(table) # 0 THEN table[single(table)] ELSE DefaultSettings

\* The second request of updateSettings: update the row whose id was read,
\* or insert a new row when none was
WriteRow(table, existingSettings, s) ==
    IF existingSettings # 0 THEN [table EXCEPT ![existingSettings] = s]
    ELSE Append(table, s)

\* Start and end times the lifecycle requests are drawn from: whole hours
\* from the default opening time.
SlotTimes ==
    {FormatTime(ParseTime(DefaultSettings.opening_time) + k * 60) : k \in 0..MaxSlot}

Requests ==
    {r \in [game_id : Games, booking_date : Dates,
            start_time : SlotTimes, end_time : SlotTimes] :
        ParseTime(r.start_time) < ParseTime(r.end_time)}

----------------------------------------------------------------------------
(* Database side *)

\* The function without its status filter: every stored booking counts
check_booking_conflict_AnyStatus(rows, p_game_id, p_booking_date, p_start_time, p_end_time, p_exclude) ==
    \E i \in DOMAIN rows :
        /\ rows[i].game_id = p_game_id
        /\ rows[i].booking_date = p_booking_date
        /\ ParseTime(rows[i].start_time) < ParseTime(p_end_time)
        /\ ParseTime(rows[i].end_time) > ParseTime(p_start_time)
        /\ (p_exclude = 0 \/ i # p_exclude)

\* SQL function check_booking_conflict; p_exclude = 0 stands for NULL
check_booking_conflict(rows, p_game_id, p_booking_date, p_start_time, p_end_time, p_exclude) ==
    \E i \in DOMAIN rows :
        /\ rows[i].game_id = p_game_id
        /\ rows[i].booking_date = p_booking_date
        /\ rows[i].status \in Active
        /\ ParseTime(rows[i].start_time) < ParseTime(p_end_time)
        /\ ParseTime(rows[i].end_time) > ParseTime(p_start_time)
        /\ (p_exclude = 0 \/ i # p_exclude)

\* The row an insert of bookingData stores: createBooking's callers send
\* no status, so the column default applies.
InsertedRow(user, req) ==
    [user_id |-> user, game_id |-> req.game_id, booking_date |-> req.booking_date,
     start_time |-> req.start_time, end_time |-> req.end_time,
     status |-> statusDefault, notes |-> NullNotes]

----------------------------------------------------------------------------
(* BookingService.createBooking: the conflict check and the insert are two
   round trips to the store; a call is "idle", at "insert" (check done,
   insert not yet sent) or "done" (result returned to handleSubmit). *)

NoReq == [game_id |-> "", booking_date |-> 0,
          start_time |-> EmptyString, end_time |-> EmptyString]

IdleCall == [pc |-> "idle", req |-> NoReq, result |-> "none",
             checkFailed |-> FALSE, sawConflict |-> FALSE, raced |-> FALSE]

InFlight(u) == calls[u].pc = "insert"

\* checkBookingConflict: the rpc's answer, or false when the rpc fails
\* (the catch block logs and returns false)
checkBookingConflict(rpcOk, req) ==
    IF rpcOk
    THEN check_booking_conflict(bookings, req.game_id, req.booking_date,
                                req.start_time, req.end_time, 0)
    ELSE FALSE

\* createBooking up to the end of its first await: the conflict check,
\* answered by the store (rpcOk) or failed.  Kept with the call for the
\* properties: checkFailed (the rpc failed), sawConflict (the table held
\* a conflicting active booking when the check ran) and raced (another
\* call was between its check and its insert while this one was).
CreateBooking_Check(u, req, rpcOk) ==
    /\ calls[u].pc = "idle"
    /\ Len(bookings) + Cardinality({v \in Users : InFlight(v)}) < MaxBookings
    /\ LET hasConflict == checkBookingConflict(rpcOk, req)
           truth == check_booking_conflict(bookings, req.game_id, req.booking_date,
                                           req.start_time, req.end_time, 0)
           others == {v \in Users \ {u} : InFlight(v)}
       IN  IF hasConflict
           THEN calls' = [calls EXCEPT ![u] =
                    [pc |-> "done", req |-> req, result |-> "Time slot is already booked",
                     checkFailed |-> ~rpcOk, sawConflict |-> truth, raced |-> FALSE]]
           ELSE calls' = [v \in Users |->
                    IF v = u
                    THEN [pc |-> "insert", req |-> req, result |-> "none",
                          checkFailed |-> ~rpcOk, sawConflict |-> truth,
                          raced |-> others # {}]
                    ELSE IF v \in others
                         THEN [calls[v] EXCEPT !.raced = TRUE]
                         ELSE calls[v]]
    /\ UNCHANGED <<bookings, settings, statusDefault, adminView, now>>
    /\ UNCHANGED <<pageVars, formVars, tableVars>>

\* createBooking from the insert to its return: the row is stored, or the
\* store's error is returned and nothing is stored.
CreateBooking_Insert(u, insertOk) ==
    /\ calls[u].pc = "insert"
    /\ IF insertOk
       THEN /\ bookings' = Append(bookings, InsertedRow(u, calls[u].req))
            /\ calls' = [calls EXCEPT ![u].pc = "done", ![u].result = "ok"]
       ELSE /\ bookings' = bookings
            /\ calls' = [calls EXCEPT ![u].pc = "done", ![u].result = "error"]
    /\ UNCHANGED <<settings, statusDefault, adminView, now>>
    /\ UNCHANGED <<pageVars, formVars, tableVars>>

\* handleSubmit after the await: toast, then setSubmitting(false)
CreateBooking_Return(u) ==
    /\ calls[u].pc = "done"
    /\ calls' = [calls EXCEPT ![u] = IdleCall]
    /\ UNCHANGED <<bookings, settings, statusDefault, adminView, now>>
    /\ UNCHANGED <<pageVars, formVars, tableVars>>

----------------------------------------------------------------------------
(* BookingService.updateBookingStatus and its wrappers: one UPDATE ... WHERE
   id = bookingId; the table after the call. *)

\* updateBookingStatus without .eq('id', bookingId): every row is updated
updateBookingStatusAllRows(bookingId, status, notes) ==
    [id \in DOMAIN bookings |->
        [bookings[id] EXCEPT !.status = status,
                             !.notes = IF notes = Undefined THEN @ ELSE notes]]

updateBookingStatus(bookingId, status, notes) ==
    [bookings EXCEPT ![bookingId] =
        [@ EXCEPT !.status = status,
                  !.notes = IF notes = Undefined THEN @ ELSE notes]]

\* `notes || fallback`
OrElse(notes, fallback) == IF notes = Undefined THEN fallback ELSE notes

cancelBooking(bookingId, reason) == updateBookingStatus(bookingId, "canceled", reason)
confirmBooking(bookingId) == updateBookingStatus(bookingId, "confirmed", Undefined)
markNoShow(bookingId, notes) ==
    updateBookingStatus(bookingId, "no_show", OrElse(notes, "Customer did not show up"))
markCompleted(bookingId, notes) ==
    updateBookingStatus(bookingId, "completed", OrElse(notes, "Booking completed successfully"))
adminCancelBooking(bookingId, reason) ==
    updateBookingStatus(bookingId, "canceled", OrElse(reason, "Cancelled by admin"))

----------------------------------------------------------------------------
(* Admin bookings page: `bookings` state is what fetchAllBookings last
   returned; the buttons of a card depend on the status it shows. *)

StatusesOf(rows) == [i \in DOMAIN rows |-> rows[i].status]

fetchAllBookings ==
    /\ adminView # StatusesOf(bookings)
    /\ adminView' = StatusesOf(bookings)
    /\ UNCHANGED <<bookings, settings, statusDefault, calls, now>>
    /\ UNCHANGED <<pageVars, formVars, tableVars>>

\* A handler of the page: the service call, then fetchAllBookings().
AdminHandler(bookingId, shown, after) ==
    /\ bookingId \in DOMAIN adminView
    /\ adminView[bookingId] = shown
    /\ bookings' = after
    /\ adminView' = StatusesOf(after)
    /\ UNCHANGED <<settings, statusDefault, calls, now>>
    /\ UNCHANGED <<pageVars, formVars, tableVars>>

handleApproveBooking(bookingId) ==
    AdminHandler(bookingId, "pending", confirmBooking(bookingId))
handleRejectBooking(bookingId) ==
    AdminHandler(bookingId, "pending", cancelBooking(bookingId, "Rejected by admin"))
handleMarkNoShow(bookingId) ==
    AdminHandler(bookingId, "confirmed", markNoShow(bookingId, Undefined))
handleMarkCompleted(bookingId) ==
    AdminHandler(bookingId, "confirmed", markCompleted(bookingId, Undefined))
handleAdminCancel(bookingId) ==
    AdminHandler(bookingId, "confirmed", adminCancelBooking(bookingId, Undefined))

----------------------------------------------------------------------------
(* My-bookings page *)

\* new Date(`${booking_date}T${start_time}`), in minutes
BookingStart(row) == row.booking_date * MinutesPerDay + ParseTime(row.start_time)

\* hoursDifference > 2, with both sides in minutes
canCancelBooking(row) ==
    \/ row.status = "pending"
    \/ row.status = "confirmed" /\ BookingStart(row) - now > UserCancelHours * 60

\* getUpcomingBookings' filter: the user's active bookings from today on
Upcoming(u, row) ==
    /\ row.user_id = u
    /\ row.booking_date >= now \div MinutesPerDay
    /\ row.status \in Active

\* The Cancel button of a card of the Upcoming tab: cancelBooking, then
\* fetchBookings().
handleCancelBooking(u, bookingId) ==
    /\ bookingId \in DOMAIN bookings
    /\ Upcoming(u, bookings[bookingId])
    /\ canCancelBooking(bookings[bookingId])
    /\ bookings' = cancelBooking(bookingId, "Cancelled by user")
    /\ UNCHANGED <<settings, statusDefault, calls, adminView, now>>
    /\ UNCHANGED <<pageVars, formVars, tableVars>>

----------------------------------------------------------------------------
(* Booking page (BookPage).  `pageSettings` is <<>> while settings is null
   and <<s>> once loaded; formData.bookingDate = 0 and "" stand for the
   empty form fields. *)

dbPart == <<bookings, settings, statusDefault, calls, adminView, now>>

EmptyForm == [gameId |-> "", bookingDate |-> 0,
              startTime |-> EmptyString, endTime |-> EmptyString]

\* calculateDuration without the overnight branch
calculateDurationNoWrap(ps, startTime, endTime) ==
    IF startTime = EmptyString \/ endTime = EmptyString \/ ps = <<>> THEN 0
    ELSE IF ParseTime(endTime) <= ParseTime(startTime) THEN 0
         ELSE ParseTime(endTime) - ParseTime(startTime)

\* calculateDuration, in minutes (the code divides by 60 at the end)
calculateDuration(ps, startTime, endTime) ==
    IF startTime = EmptyString \/ endTime = EmptyString \/ ps = <<>> THEN 0
    ELSE LET startTotalMinutes == ParseTime(startTime)
             endParsed == ParseTime(endTime)
             endTotalMinutes ==
                 IF ps[1].is_24_7 /\ endParsed <= startTotalMinutes
                 THEN endParsed + MinutesPerDay
                 ELSE endParsed
         IN  IF endTotalMinutes <= startTotalMinutes THEN 0
             ELSE endTotalMinutes - startTotalMinutes

\* selectedGame: null, or the row of the games table that was picked
NoGame == [id |-> "", price_per_hour |-> 0]

\* The games table: price_per_hour of each game
GamesTable == [g \in Games |-> [id |-> g, price_per_hour |-> 500]]

\* Math.floor in place of Math.round
MathFloor(num, den) == num \div den

\* Math.round(x) for x = num / den >= 0: floor(x + 1/2)
MathRound(num, den) == (2 * num + den) \div (2 * den)

\* calculateCost: the value estimatedCost is left with.  The code rounds
\* price_per_hour * hours; hours = minutes / 60.
calculateCost(game, ps, startTime, endTime) ==
    IF game = NoGame \/ startTime = EmptyString \/ endTime = EmptyString THEN 0
    ELSE LET duration == calculateDuration(ps, startTime, endTime)
         IN  IF duration > 0
             THEN MathRound(game.price_per_hour * duration, 60)
             ELSE 0

\* The loop with `minutes <= to`
TimesFromInclusive(from, to, step) ==
    LET n == IF to >= from THEN (to - from) \div step + 1 ELSE 0
    IN  [k \in 1..n |-> FormatTime(from + (k - 1) * step)]

\* for (minutes = from; minutes < to; minutes += step) push(format(minutes))
TimesFrom(from, to, step) ==
    LET n == IF to > from THEN (to - from + step - 1) \div step ELSE 0
    IN  [k \in 1..n |-> FormatTime(from + (k - 1) * step)]

\* generateTimeOptions without the regular-mode branch: the whole day
generateTimeOptionsAllDay(ps) ==
    IF ps = <<>> THEN <<>>
    ELSE TimesFrom(0, MinutesPerDay, ps[1].booking_slot_duration)

generateTimeOptions(ps) ==
    IF ps = <<>> THEN <<>>
    ELSE IF ps[1].is_24_7
         THEN TimesFrom(0, MinutesPerDay, ps[1].booking_slot_duration)
         ELSE TimesFrom(ParseTime(ps[1].opening_time), ParseTime(ps[1].closing_time),
                        ps[1].booking_slot_duration)

Range(seq) == {seq[i] : i \in DOMAIN seq}

\* The test without its third clause: a candidate that contains a booking
\* goes unnoticed
SlotConflictNoContain(startTime, endTime, booking) ==
    \/ StrLeq(booking.start_time, startTime) /\ StrLess(startTime, booking.end_time)
    \/ StrLess(booking.start_time, endTime) /\ StrLeq(endTime, booking.end_time)

\* The three-clause test of isTimeSlotAvailable against one booking
SlotConflict(startTime, endTime, booking) ==
    \/ StrLeq(booking.start_time, startTime) /\ StrLess(startTime, booking.end_time)
    \/ StrLess(booking.start_time, endTime) /\ StrLeq(endTime, booking.end_time)
    \/ StrLeq(startTime, booking.start_time) /\ StrLeq(booking.end_time, endTime)

isTimeSlotAvailable(existing, startTime, endTime) ==
    ~ \E i \in DOMAIN existing : SlotConflict(startTime, endTime, existing[i])

\* The same test as written inside validateTimeSelection
ValidateConflict(startTime, endTime, booking) ==
    \/ StrLeq(booking.start_time, startTime) /\ StrLess(startTime, booking.end_time)
    \/ StrLess(booking.start_time, endTime) /\ StrLeq(endTime, booking.end_time)
    \/ StrLeq(startTime, booking.start_time) /\ StrLeq(booking.end_time, endTime)

\* validateTimeSelection: the value timeError is left with
validateTimeSelection(form, ps, existing) ==
    IF form.startTime = EmptyString \/ form.endTime = EmptyString \/ ps = <<>> THEN ""
    ELSE LET duration == calculateDuration(ps, form.startTime, form.endTime)
         IN  IF duration < ps[1].min_booking_duration
             THEN "Minimum booking duration"
             ELSE IF duration > ps[1].max_booking_duration
             THEN "Maximum booking duration"
             ELSE IF \E i \in DOMAIN existing :
                         ValidateConflict(form.startTime, form.endTime, existing[i])
             THEN "Selected time conflicts with an existing booking"
             ELSE ""

\* addHoursToTime, the hours given in minutes
addHoursToTime(timeString, minutes) ==
    LET totalMinutes == ParseTime(timeString) + minutes
        newHour == (totalMinutes \div 60) % 24
        newMinute == totalMinutes % 60
    IN  PadStart2(newHour) \o <<58>> \o PadStart2(newMinute)

getAvailableStartTimes(ps, existing) ==
    IF ps = <<>> THEN {}
    ELSE {time \in Range(generateTimeOptions(ps)) :
            isTimeSlotAvailable(existing, time,
                                addHoursToTime(time, ps[1].min_booking_duration))}

\* The end times the End Time select lists
EndTimeOptions(ps, startTime) ==
    IF startTime = EmptyString \/ ps = <<>> THEN {}
    ELSE {time \in Range(generateTimeOptions(ps)) :
            LET duration == calculateDuration(ps, startTime, time)
            IN  /\ duration >= ps[1].min_booking_duration
                /\ duration <= ps[1].max_booking_duration}

\* SelectSeq without a lambda: the subsequence of rows that pass `keep`
RECURSIVE FilterRows(_, _, _)
FilterRows(rows, gameId, bookingDate) ==
    IF rows = <<>> THEN <<>>
    ELSE LET r == Head(rows)
             rest == FilterRows(Tail(rows), gameId, bookingDate)
         IN  IF r.game_id = gameId /\ r.booking_date = bookingDate /\ r.status \in Active
             THEN <<[start_time |-> r.start_time, end_time |-> r.end_time]>> \o rest
             ELSE rest

\* fetchExistingBookings: what setExistingBookings receives
fetchExistingBookings(form) ==
    IF form.gameId = "" \/ form.bookingDate = 0 THEN existingBookings
    ELSE FilterRows(bookings, form.gameId, form.bookingDate)

\* GameService.getAvailableTimeSlots: the slots generateTimeSlots lists,
\* 06:00 to 22:00 on the half hour, 1 to 4 hours long in half-hour steps
generateTimeSlots ==
    UNION {IF (hour * 60 + minute + duration) \div 60 > 22
           THEN {}
           ELSE {[start |-> FormatTime(hour * 60 + minute),
                  end |-> FormatTime(hour * 60 + minute + duration),
                  duration |-> duration]} :
               hour \in 6..21, minute \in {0, 30},
               duration \in {60, 90, 120, 150, 180, 210, 240}}

\* The overlap test of getAvailableTimeSlots against one booking
GameSlotConflict(slot, booking) ==
    \/ StrLeq(booking.start_time, slot.start) /\ StrLess(slot.start, booking.end_time)
    \/ StrLess(booking.start_time, slot.end) /\ StrLeq(slot.end, booking.end_time)
    \/ StrLeq(slot.start, booking.start_time) /\ StrLeq(booking.end_time, slot.end)

\* The filter callback of getAvailableTimeSlots: no fetched booking
\* overlaps the slot
SlotIsFree(active, slot) ==
    ~ \E i \in DOMAIN active : GameSlotConflict(slot, active[i])

\* The slots getAvailableTimeSlots returns for a game and date
getAvailableTimeSlots(rows, gameId, date) ==
    LET active == FilterRows(rows, gameId, date)
    IN  {slot \in generateTimeSlots : SlotIsFree(active, slot)}

\* fetchSettings, run once on mount: setSettings(data) with what
\* getSettings returns
fetchSettings ==
    /\ pageSettings = <<>>
    /\ pageSettings' = <<getSettings(settingsTable)>>
    /\ timeError' = validateTimeSelection(formData, pageSettings', existingBookings)
    /\ estimatedCost' = calculateCost(selectedGame, pageSettings',
                                      formData.startTime, formData.endTime)
    /\ UNCHANGED <<formData, existingBookings, selectedGame>>
    /\ UNCHANGED <<fetches, dbPart, formVars, tableVars>>

\* handleGameSelect, then the effects it triggers
handleGameSelect(gameId) ==
    /\ formData' = [formData EXCEPT !.gameId = gameId,
                                    !.startTime = EmptyString, !.endTime = EmptyString]
    /\ selectedGame' = GamesTable[gameId]
    /\ existingBookings' = fetchExistingBookings(formData')
    /\ timeError' = validateTimeSelection(formData', pageSettings, existingBookings')
    /\ estimatedCost' = calculateCost(selectedGame', pageSettings,
                                      formData'.startTime, formData'.endTime)
    /\ UNCHANGED pageSettings
    /\ UNCHANGED <<fetches, dbPart, formVars, tableVars>>

\* The date input's onChange, then the effects it triggers
SelectDate(bookingDate) ==
    /\ formData.gameId # ""
    /\ pageSettings # <<>>
    /\ formData' = [formData EXCEPT !.bookingDate = bookingDate]
    /\ existingBookings' = fetchExistingBookings(formData')
    /\ timeError' = validateTimeSelection(formData', pageSettings, existingBookings')
    /\ UNCHANGED <<pageSettings, selectedGame, estimatedCost>>
    /\ UNCHANGED <<fetches, dbPart, formVars, tableVars>>

\* The Start Time select's onValueChange for an enabled item
SelectStartTime(value) ==
    /\ formData.bookingDate # 0
    /\ pageSettings # <<>>
    /\ value \in getAvailableStartTimes(pageSettings, existingBookings)
    /\ formData' = [formData EXCEPT
           !.startTime = value,
           !.endTime = IF @ # EmptyString /\ StrLeq(@, value) THEN EmptyString ELSE @]
    /\ timeError' = validateTimeSelection(formData', pageSettings, existingBookings)
    /\ estimatedCost' = calculateCost(selectedGame, pageSettings,
                                      formData'.startTime, formData'.endTime)
    /\ UNCHANGED <<pageSettings, existingBookings, selectedGame>>
    /\ UNCHANGED <<fetches, dbPart, formVars, tableVars>>

\* The End Time select's onValueChange for an enabled item
SelectEndTime(value) ==
    /\ formData.startTime # EmptyString
    /\ pageSettings # <<>>
    /\ value \in EndTimeOptions(pageSettings, formData.startTime)
    /\ isTimeSlotAvailable(existingBookings, formData.startTime, value)
    /\ formData' = [formData EXCEPT !.endTime = value]
    /\ timeError' = validateTimeSelection(formData', pageSettings, existingBookings)
    /\ estimatedCost' = calculateCost(selectedGame, pageSettings,
                                      formData'.startTime, formData'.endTime)
    /\ UNCHANGED <<pageSettings, existingBookings, selectedGame>>
    /\ UNCHANGED <<fetches, dbPart, formVars, tableVars>>

\* The booking page with the fetch of existingBookings in flight: a
\* change of gameId or bookingDate runs the effect, which sends the query
\* for the values it was rendered with; each answer, whenever it arrives,
\* goes to setExistingBookings.

FetchRequest(form) == [gameId |-> form.gameId, bookingDate |-> form.bookingDate]

\* handleGameSelect, then the effects: the query is sent when gameId
\* changed and a date is set
handleGameSelect_Send(gameId) ==
    /\ formData' = [formData EXCEPT !.gameId = gameId,
                                    !.startTime = EmptyString, !.endTime = EmptyString]
    /\ selectedGame' = GamesTable[gameId]
    /\ fetches' = IF gameId # formData.gameId /\ formData.bookingDate # 0
                  THEN fetches \cup {FetchRequest(formData')} ELSE fetches
    /\ timeError' = validateTimeSelection(formData', pageSettings, existingBookings)
    /\ estimatedCost' = calculateCost(selectedGame', pageSettings,
                                      formData'.startTime, formData'.endTime)
    /\ UNCHANGED <<pageSettings, existingBookings>>
    /\ UNCHANGED <<dbPart, formVars, tableVars>>

\* The date input's onChange, then the effects: the query is sent when
\* bookingDate changed
SelectDate_Send(bookingDate) ==
    /\ formData.gameId # ""
    /\ pageSettings # <<>>
    /\ formData' = [formData EXCEPT !.bookingDate = bookingDate]
    /\ fetches' = IF bookingDate # formData.bookingDate
                  THEN fetches \cup {FetchRequest(formData')} ELSE fetches
    /\ UNCHANGED <<pageSettings, existingBookings, timeError, selectedGame,
                   estimatedCost>>
    /\ UNCHANGED <<dbPart, formVars, tableVars>>

\* The answer to one query arrives: setExistingBookings(data), then the
\* effects
fetchExistingBookings_Receive(req) ==
    /\ req \in fetches
    /\ fetches' = fetches \ {req}
    /\ existingBookings' = FilterRows(bookings, req.gameId, req.bookingDate)
    /\ timeError' = validateTimeSelection(formData, pageSettings, existingBookings')
    /\ UNCHANGED <<formData, pageSettings, selectedGame, estimatedCost>>
    /\ UNCHANGED <<dbPart, formVars, tableVars>>

----------------------------------------------------------------------------
(* Settings form (SettingsForm.handleSave) and SettingsService *)

\* new Date(`2000-01-01T${time}:00`) as minutes of that day: a time that
\* is not HH:MM (HH:MM:SS, as a TIME column is read back) makes the string
\* no date, and the result is an Invalid Date
InvalidDate == -1

DateOfTime(time) == IF Len(time) = 5 THEN ParseTime(time) ELSE InvalidDate

\* openTime >= closeTime: false when either is an Invalid Date (NaN)
DateGeq(openTime, closeTime) ==
    openTime # InvalidDate /\ closeTime # InvalidDate /\ openTime >= closeTime

\* validateSettings: the list of error messages.  A field that is 0 is
\* falsy and skips its rule; durations are in minutes.
validateSettings(s) ==
    (IF ~s.is_24_7 /\ s.opening_time # EmptyString /\ s.closing_time # EmptyString
        /\ DateGeq(DateOfTime(s.opening_time), DateOfTime(s.closing_time))
     THEN <<"Opening time must be before closing time">> ELSE <<>>)
    \o (IF s.advance_booking_days # 0
           /\ (s.advance_booking_days < 1 \/ s.advance_booking_days > 30)
        THEN <<"Advance booking days must be between 1 and 30">> ELSE <<>>)
    \o (IF s.booking_slot_duration # 0 /\ s.booking_slot_duration \notin {15, 30, 60}
        THEN <<"Booking slot duration must be 15, 30, or 60 minutes">> ELSE <<>>)
    \o (IF s.min_booking_duration # 0 /\ s.max_booking_duration # 0
           /\ s.min_booking_duration >= s.max_booking_duration
        THEN <<"Minimum booking duration must be less than maximum duration">> ELSE <<>>)
    \o (IF s.min_booking_duration # 0
           /\ (s.min_booking_duration < 30 \/ s.min_booking_duration > 8 * 60)
        THEN <<"Minimum booking duration must be between 0.5 and 8 hours">> ELSE <<>>)
    \o (IF s.max_booking_duration # 0
           /\ (s.max_booking_duration < 60 \/ s.max_booking_duration > 12 * 60)
        THEN <<"Maximum booking duration must be between 1 and 12 hours">> ELSE <<>>)
    \o (IF s.cancellation_deadline # 0
           /\ (s.cancellation_deadline < 0 \/ s.cancellation_deadline > 48)
        THEN <<"Cancellation deadline must be between 0 and 48 hours">> ELSE <<>>)

\* handleSave without the early return on validation errors
handleSaveUnchecked(edited) ==
    /\ formSettings' = edited
    /\ errors' = validateSettings(edited)
    /\ settingsTable' = WriteRow(settingsTable, single(settingsTable), edited)
    /\ settings' = getSettings(settingsTable')
    /\ UNCHANGED updates
    /\ <<settings', formSettings', errors'>> # <<settings, formSettings, errors>>
    /\ UNCHANGED <<bookings, statusDefault, calls, adminView, now>>
    /\ UNCHANGED pageVars

\* handleSave with the form holding `edited`: validate; on errors
\* setErrors and return, else updateSettings(settings) on the one row
handleSave(edited) ==
    /\ formSettings' = edited
    /\ errors' = validateSettings(edited)
    /\ settingsTable' = IF validateSettings(edited) = <<>>
                        THEN WriteRow(settingsTable, single(settingsTable), edited)
                        ELSE settingsTable
    /\ settings' = getSettings(settingsTable')
    /\ UNCHANGED updates
    /\ <<settings', formSettings', errors'>> # <<settings, formSettings, errors>>
    /\ UNCHANGED <<bookings, statusDefault, calls, adminView, now>>
    /\ UNCHANGED pageVars

\* handleReset: resetToDefaults() writes the defaults to the row, then
\* setSettings(data)
handleReset ==
    /\ settingsTable' = WriteRow(settingsTable, single(settingsTable), DefaultSettings)
    /\ settings' = getSettings(settingsTable')
    /\ UNCHANGED updates
    /\ formSettings' = DefaultSettings
    /\ errors' = <<>>
    /\ UNCHANGED <<bookings, statusDefault, calls, adminView, now>>
    /\ UNCHANGED pageVars

\* updateSettings, first request: read the id of the existing row
updateSettings_Select(a, s) ==
    /\ updates[a].pc = "idle"
    /\ updates' = [updates EXCEPT ![a] =
           [pc |-> "selected", settings |-> <<s>>,
            existingSettings |-> single(settingsTable)]]
    /\ UNCHANGED <<settingsTable, dbPart, pageVars, formVars>>

\* updateSettings, second request: update that row, or insert one
updateSettings_Write(a) ==
    /\ updates[a].pc = "selected"
    /\ updates[a].existingSettings # 0 \/ Len(settingsTable) < MaxRows
    /\ settingsTable' = WriteRow(settingsTable, updates[a].existingSettings,
                                 updates[a].settings[1])
    /\ settings' = getSettings(settingsTable')
    /\ updates' = [updates EXCEPT ![a] = IdleUpdate]
    /\ UNCHANGED <<bookings, statusDefault, calls, adminView, now>>
    /\ UNCHANGED <<pageVars, formVars>>

\* The edits the admin makes: the approval switch, and the cancellation
\* deadline raised by MaxNow hours.
ApprovalEdits ==
    {[DefaultSettings EXCEPT !.require_admin_approval = a] : a \in BOOLEAN}

DeadlineEdits ==
    {[DefaultSettings EXCEPT !.cancellation_deadline = d] :
        d \in {DefaultSettings.cancellation_deadline,
               DefaultSettings.cancellation_deadline + MaxNow}}

----------------------------------------------------------------------------
(* Clock: whole hours, from UserCancelHours + MaxNow hours before the first
   bookable slot *)

FirstSlotStart ==
    CHOOSE d \in Dates : \A e \in Dates : d <= e

NowStart ==
    FirstSlotStart * MinutesPerDay + ParseTime(DefaultSettings.opening_time)
        - (UserCancelHours + MaxNow) * 60

Tick ==
    /\ now < NowStart + MaxNow * 60
    /\ now' = now + 60
    /\ UNCHANGED <<bookings, settings, statusDefault, calls, adminView>>
    /\ UNCHANGED <<pageVars, formVars, tableVars>>

----------------------------------------------------------------------------
(* Lifecycle specification: the table, concurrent createBooking calls
   whose requests to the store may fail, the admin and user pages and the
   approval switch of the settings form. *)

PageInit ==
    /\ formData = EmptyForm
    /\ existingBookings = <<>>
    /\ pageSettings = <<>>
    /\ timeError = ""
    /\ selectedGame = NoGame
    /\ estimatedCost = 0
    /\ fetches = {}

Init ==
    /\ bookings = <<>>
    /\ settings = DefaultSettings
    /\ statusDefault \in Active
    /\ calls = [u \in Users |-> IdleCall]
    /\ adminView = <<>>
    /\ now = NowStart
    /\ PageInit
    /\ formSettings = settings
    /\ settingsTable = <<settings>>
    /\ updates = [a \in Admins |-> IdleUpdate]
    /\ errors = <<>>

CreateActions ==
    \/ \E u \in Users, req \in Requests, rpcOk \in BOOLEAN :
           CreateBooking_Check(u, req, rpcOk)
    \/ \E u \in Users, insertOk \in BOOLEAN : CreateBooking_Insert(u, insertOk)
    \/ \E u \in Users : CreateBooking_Return(u)

StatusActions ==
    \/ fetchAllBookings
    \/ \E id \in 1..MaxBookings : handleApproveBooking(id)
    \/ \E id \in 1..MaxBookings : handleRejectBooking(id)
    \/ \E id \in 1..MaxBookings : handleMarkNoShow(id)
    \/ \E id \in 1..MaxBookings : handleMarkCompleted(id)
    \/ \E id \in 1..MaxBookings : handleAdminCancel(id)
    \/ \E u \in Users, id \in 1..MaxBookings : handleCancelBooking(u, id)

Next ==
    \/ CreateActions
    \/ StatusActions
    \/ \E edited \in ApprovalEdits : handleSave(edited)

Spec == Init /\ [][Next]_vars

----------------------------------------------------------------------------
(* Sequential specification: a createBooking call runs from its check to
   its return with nothing in between and the store answers every request;
   the clock advances and the admin edits the cancellation deadline. *)

Busy == \E u \in Users : calls[u].pc # "idle"

SeqStep(outcomes) ==
    \/ \E u \in Users, insertOk \in outcomes : CreateBooking_Insert(u, insertOk)
    \/ \E u \in Users : CreateBooking_Return(u)
    \/ /\ ~Busy
       /\ \E u \in Users, req \in Requests, rpcOk \in outcomes :
              CreateBooking_Check(u, req, rpcOk)
    \/ ~Busy /\ StatusActions
    \/ ~Busy /\ \E edited \in DeadlineEdits : handleSave(edited)
    \/ ~Busy /\ Tick

NextSeq == SeqStep({TRUE})

SpecSeq == Init /\ [][NextSeq]_vars

\* The sequential specification with a store whose requests may fail
NextSeqFaults == SeqStep(BOOLEAN)

SpecSeqFaults == Init /\ [][NextSeqFaults]_vars

----------------------------------------------------------------------------
(* Booking page specification: one user fills the form and submits it, the
   store answers every request, and the table holds what the page's own
   submissions put there.  The venue is open 06:00-22:00 or around the
   clock, with one-hour slots. *)

PageSettingsChoices ==
    {[DefaultSettings EXCEPT !.is_24_7 = b, !.booking_slot_duration = 60] :
        b \in BOOLEAN}

\* The hours the user picks in the Start Time and End Time selects
ClickHours == {0, 1, 9, 10, 11, 12, 23}

ClickTimes == {FormatTime(h * 60) : h \in ClickHours}

FormComplete ==
    /\ formData.gameId # ""
    /\ formData.bookingDate # 0
    /\ formData.startTime # EmptyString
    /\ formData.endTime # EmptyString

FormRequest ==
    [game_id |-> formData.gameId, booking_date |-> formData.bookingDate,
     start_time |-> formData.startTime, end_time |-> formData.endTime]

\* handleSubmit with the createBooking call it awaits: the guards, the
\* conflict check, the insert, then router.push (the page is left, and
\* mounts afresh on the next visit) or the error toast (the form stays).
handleSubmit(u) ==
    /\ FormComplete
    /\ timeError = ""
    /\ Len(bookings) < MaxExisting
    /\ IF checkBookingConflict(TRUE, FormRequest)
       THEN UNCHANGED <<bookings, pageVars>>
       ELSE /\ bookings' = Append(bookings, InsertedRow(u, FormRequest))
            /\ formData' = EmptyForm
            /\ existingBookings' = <<>>
            /\ pageSettings' = <<>>
            /\ timeError' = ""
            /\ selectedGame' = NoGame
            /\ estimatedCost' = 0
            /\ fetches' = {}
    /\ UNCHANGED <<settings, statusDefault, calls, adminView, now>>
    /\ UNCHANGED <<formVars, tableVars>>

InitPage ==
    /\ bookings = <<>>
    /\ settings \in PageSettingsChoices
    /\ statusDefault \in Active
    /\ calls = [u \in Users |-> IdleCall]
    /\ adminView = <<>>
    /\ now = NowStart
    /\ PageInit
    /\ formSettings = settings
    /\ settingsTable = <<settings>>
    /\ updates = [a \in Admins |-> IdleUpdate]
    /\ errors = <<>>

NextPage ==
    \/ fetchSettings
    \/ \E gameId \in Games : handleGameSelect(gameId)
    \/ \E bookingDate \in Dates : SelectDate(bookingDate)
    \/ \E value \in ClickTimes : SelectStartTime(value)
    \/ \E value \in ClickTimes : SelectEndTime(value)
    \/ handleSubmit("u1")

SpecPage == InitPage /\ [][NextPage]_vars

----------------------------------------------------------------------------
(* Booking page with the settings form: the admin saves the settings row
   while one user fills the booking form and submits it.  The page holds
   the row it fetched on mount. *)

\* The rows the admin saves: either mode, and the minimum booking duration
\* typed as 0 or as 1 hour
MinDurationEdits ==
    {[DefaultSettings EXCEPT !.is_24_7 = b, !.min_booking_duration = m] :
        b \in BOOLEAN, m \in {0, 60}}

\* The times the user picks in the Start Time and End Time selects
SavedClickTimes == {FormatTime(h * 60) : h \in {9, 10, 11}}

NextPageSaved ==
    \/ \E edited \in MinDurationEdits : handleSave(edited)
    \/ fetchSettings
    \/ \E gameId \in Games : handleGameSelect(gameId)
    \/ \E bookingDate \in Dates : SelectDate(bookingDate)
    \/ \E value \in SavedClickTimes : SelectStartTime(value)
    \/ \E value \in SavedClickTimes : SelectEndTime(value)
    \/ handleSubmit("u1")

SpecPageSaved == Init /\ [][NextPageSaved]_vars

----------------------------------------------------------------------------
(* Settings specification: the admin edits the settings form and saves, or
   resets to the defaults, any number of times. *)

\* Opening and closing time as the form holds them: typed in the time
\* inputs (HH:MM), or the closing time as loaded from the row (HH:MM:SS)
SettingsTimes ==
    {<<FormatTime(6 * 60), FormatTime(22 * 60)>>,
     <<FormatTime(22 * 60), FormatTime(6 * 60)>>,
     <<FormatTime(23 * 60), FormatTime(22 * 60) \o <<58, 48, 48>>>>}

\* The form contents handleSave is clicked with: the switch, the time
\* inputs and the number inputs (parseInt / parseFloat of what was typed,
\* durations in minutes); the slot length comes from a Select of 15, 30, 60
SettingsEdits ==
    {[DefaultSettings EXCEPT !.opening_time = oc[1], !.closing_time = oc[2],
                             !.is_24_7 = b, !.advance_booking_days = adv,
                             !.min_booking_duration = mn,
                             !.max_booking_duration = mx,
                             !.cancellation_deadline = dl] :
        oc \in SettingsTimes, b \in BOOLEAN, adv \in {0, 7},
        mn \in {0, 60, 300}, mx \in {0, 240}, dl \in {2, 49}}

NextSettings ==
    \/ \E edited \in SettingsEdits : handleSave(edited)
    \/ handleReset

SpecSettings == Init /\ [][NextSettings]_vars

----------------------------------------------------------------------------
(* Settings table specification: two admins save and reset concurrently;
   each updateSettings call is a read of the existing row's id followed by
   an update or an insert.  The table starts with no row or with the
   default row, and a booking page that has mounted reads the settings. *)

\* What the calls write: the defaults (resetToDefaults) or an edited row
SettingsPayloads ==
    {DefaultSettings, [DefaultSettings EXCEPT !.advance_booking_days = 14]}

InitTable ==
    /\ bookings = <<>>
    /\ settingsTable \in {<<>>, <<DefaultSettings>>}
    /\ settings = getSettings(settingsTable)
    /\ updates = [a \in Admins |-> IdleUpdate]
    /\ statusDefault \in Active
    /\ calls = [u \in Users |-> IdleCall]
    /\ adminView = <<>>
    /\ now = NowStart
    /\ PageInit
    /\ formSettings = settings
    /\ errors = <<>>

NextTable ==
    \/ \E a \in Admins, s \in SettingsPayloads : updateSettings_Select(a, s)
    \/ \E a \in Admins : updateSettings_Write(a)
    \/ fetchSettings

SpecTable == InitTable /\ [][NextTable]_vars

----------------------------------------------------------------------------
(* Advance-booking specification: the admin saves the number of days
   bookings may be made ahead while one user fills the booking form, whose
   date input carries min = getMinDate() and max = getMaxDate(); the form's
   submit event fires only when the date lies between them. *)

\* new Date() as a day number
Today == now \div MinutesPerDay

getMinDate(ps) == IF ps # <<>> /\ ps[1].is_24_7 THEN Today ELSE Today + 1

getMaxDate(ps) == IF ps = <<>> THEN Today ELSE Today + ps[1].advance_booking_days

\* The rows the admin saves: bookings one or two days ahead
AdvanceEdits ==
    {[DefaultSettings EXCEPT !.advance_booking_days = d] : d \in {1, 2}}

\* The dates typed or picked in the date input: tomorrow and the day after
AdvanceDates == {FirstSlotStart + k : k \in 1..2}

\* The form's submit event with the date input valid, then handleSubmit
SubmitForm(u) ==
    /\ formData.bookingDate >= getMinDate(pageSettings)
    /\ formData.bookingDate <= getMaxDate(pageSettings)
    /\ handleSubmit(u)

NextAdvance ==
    \/ \E edited \in AdvanceEdits : handleSave(edited)
    \/ fetchSettings
    \/ \E gameId \in Games : handleGameSelect(gameId)
    \/ \E bookingDate \in AdvanceDates : SelectDate(bookingDate)
    \/ \E value \in SavedClickTimes : SelectStartTime(value)
    \/ \E value \in SavedClickTimes : SelectEndTime(value)
    \/ SubmitForm("u1")

SpecAdvance == Init /\ [][NextAdvance]_vars

----------------------------------------------------------------------------
(* Fetch specification: the booking page with its fetchExistingBookings
   queries in flight.  The table holds one confirmed booking, for tomorrow;
   the user picks the game, dates and times while the answers arrive in
   any order. *)

FetchTable ==
    <<[user_id |-> "u2", game_id |-> "cricket",
       booking_date |-> FirstSlotStart + 1,
       start_time |-> FormatTime(9 * 60), end_time |-> FormatTime(10 * 60),
       status |-> "confirmed", notes |-> NullNotes]>>

\* The queries the page can have sent
FetchRequests ==
    {[gameId |-> g, bookingDate |-> d] : g \in Games, d \in AdvanceDates}

InitFetch ==
    /\ bookings = FetchTable
    /\ settings = DefaultSettings
    /\ statusDefault \in Active
    /\ calls = [u \in Users |-> IdleCall]
    /\ adminView = <<>>
    /\ now = NowStart
    /\ PageInit
    /\ formSettings = settings
    /\ settingsTable = <<settings>>
    /\ updates = [a \in Admins |-> IdleUpdate]
    /\ errors = <<>>

NextFetch ==
    \/ fetchSettings
    \/ \E gameId \in Games : handleGameSelect_Send(gameId)
    \/ \E bookingDate \in AdvanceDates : SelectDate_Send(bookingDate)
    \/ \E req \in FetchRequests : fetchExistingBookings_Receive(req)
    \/ \E value \in SavedClickTimes : SelectStartTime(value)
    \/ \E value \in SavedClickTimes : SelectEndTime(value)

SpecFetch == InitFetch /\ [][NextFetch]_vars

----------------------------------------------------------------------------
(* Cost and time-option specification: the booking page with a game
   picked, settings loaded and start and end times drawn from a set of
   times of day, after its effects (calculateCost, validateTimeSelection)
   have run; the user then changes the start and end times. *)

\* Times of day the selections are drawn from, in minutes: 00:00, 05:00,
\* 14:00, 14:15, 15:30, 23:00
CostMinutes == {0, 300, 840, 855, 930, 1380}

CostTimes == {FormatTime(m) : m \in CostMinutes}

\* price_per_hour of the picked game
Prices == {1, 333, 500}

\* The settings row the page loads: either mode, each slot length, two
\* pairs of opening and closing time
CostSettingsChoices ==
    {[DefaultSettings EXCEPT !.is_24_7 = b, !.booking_slot_duration = slot,
                             !.opening_time = FormatTime(oc[1]),
                             !.closing_time = FormatTime(oc[2])] :
        b \in BOOLEAN, slot \in {15, 30, 60},
        oc \in {<<6 * 60, 22 * 60>>, <<9 * 60 + 30, 13 * 60>>}}

InitCost ==
    /\ bookings = <<>>
    /\ settings \in CostSettingsChoices
    /\ statusDefault \in Active
    /\ calls = [u \in Users |-> IdleCall]
    /\ adminView = <<>>
    /\ now = NowStart
    /\ formSettings = settings
    /\ settingsTable = <<settings>>
    /\ updates = [a \in Admins |-> IdleUpdate]
    /\ errors = <<>>
    /\ pageSettings = <<settings>>
    /\ existingBookings = <<>>
    /\ fetches = {}
    /\ selectedGame \in {[id |-> g, price_per_hour |-> p] : g \in Games, p \in Prices}
    /\ formData \in {[gameId |-> selectedGame.id, bookingDate |-> d,
                      startTime |-> st, endTime |-> et] :
                        d \in Dates,
                        st \in CostTimes \cup {EmptyString},
                        et \in CostTimes \cup {EmptyString}}
    /\ estimatedCost = calculateCost(selectedGame, pageSettings,
                                     formData.startTime, formData.endTime)
    /\ timeError = validateTimeSelection(formData, pageSettings, existingBookings)

NextCost ==
    \/ \E value \in CostTimes : SelectStartTime(value)
    \/ \E value \in CostTimes : SelectEndTime(value)

SpecCost == InitCost /\ [][NextCost]_vars

----------------------------------------------------------------------------
(* Properties of the booking lifecycle *)

SameSlot(a, b) == a.game_id = b.game_id /\ a.booking_date = b.booking_date

\* [s1, e1) and [s2, e2) overlap iff s1 < e2 and s2 < e1 (times of one day)
IntervalsOverlap(a, b) ==
    /\ ParseTime(a.start_time) < ParseTime(b.end_time)
    /\ ParseTime(b.start_time) < ParseTime(a.end_time)

\* C1: of two createBooking calls that ran concurrently for overlapping
\* intervals on the same game and date, at most one ends with its booking
\* inserted.  (Stated for calls whose conflict checks the store answered,
\* so that the interleaving alone decides it.)
C1_ConcurrentCreatesExclusive ==
    \A u, v \in Users :
        (/\ u # v
         /\ calls[u].pc = "done" /\ calls[v].pc = "done"
         /\ calls[u].raced /\ calls[v].raced
         /\ ~calls[u].checkFailed /\ ~calls[v].checkFailed
         /\ SameSlot(calls[u].req, calls[v].req)
         /\ IntervalsOverlap(calls[u].req, calls[v].req))
        => ~(calls[u].result = "ok" /\ calls[v].result = "ok")

\* C2: no two distinct pending or confirmed bookings of the same game and
\* date overlap, in every state a sequence of calls reaches.
C2_NoActiveOverlap ==
    \A i, j \in DOMAIN bookings :
        (/\ i # j
         /\ bookings[i].status \in Active /\ bookings[j].status \in Active
         /\ SameSlot(bookings[i], bookings[j]))
        => ~IntervalsOverlap(bookings[i], bookings[j])

\* C3: once a booking is canceled, no_show or completed, its status never
\* changes again.
C3_TerminalIsFinal ==
    [][\A i \in DOMAIN bookings :
          bookings[i].status \in Terminal
              => bookings'[i].status = bookings[i].status]_vars

AllowedTransitions ==
    {<<"pending", "confirmed">>, <<"pending", "canceled">>,
     <<"confirmed", "completed">>, <<"confirmed", "no_show">>,
     <<"confirmed", "canceled">>}

\* C4: the only status changes that take effect are the five of the
\* transition table; any other request leaves the status as it was.
C4_OnlyAllowedTransitions ==
    [][\A i \in DOMAIN bookings :
          bookings'[i].status # bookings[i].status
              => <<bookings[i].status, bookings'[i].status>> \in AllowedTransitions]_vars

\* C5: a user's cancellation of their own confirmed booking takes effect
\* only if the time to the booking's start exceeds the configured
\* settings.cancellation_deadline hours.
C5_UserCancelRespectsDeadline ==
    [][\A i \in DOMAIN bookings :
          (/\ bookings[i].status = "confirmed"
           /\ bookings'[i].status = "canceled"
           /\ bookings'[i].notes = "Cancelled by user")
              => BookingStart(bookings[i]) - now > settings.cancellation_deadline * 60]_vars

\* C6: without concurrency, createBooking for an interval that overlaps an
\* active booking of the same game and date returns an error and stores
\* nothing.
C6_ConflictingCreateRejected ==
    \A u \in Users :
        (calls[u].pc = "done" /\ calls[u].sawConflict) => calls[u].result # "ok"

\* C7: when the conflict check inside createBooking fails, createBooking
\* returns an error and inserts nothing: a call whose check failed never
\* ends with its booking inserted.
C7_CheckFailurePropagates ==
    \A u \in Users :
        (calls[u].pc = "done" /\ calls[u].checkFailed) => calls[u].result # "ok"

\* C8: a booking is stored as pending when require_admin_approval is true
\* at its creation and as confirmed when it is false.
C8_InitialStatusFollowsApproval ==
    [][Len(bookings') > Len(bookings)
          => bookings'[Len(bookings')].status =
                 (IF settings.require_admin_approval THEN "pending" ELSE "confirmed")]_vars

\* C11: a canceled, no_show or completed booking occupies no slot: for
\* every interval that overlaps only such bookings, the conflict check of
\* createBooking, the booking page's availability test on freshly fetched
\* bookings and GameService.getAvailableTimeSlots (the interval is one of
\* its generated slots and passes its filter) report it free.
C11_TerminalFreesSlot ==
    \A req \in Requests :
        (\A i \in DOMAIN bookings :
            (SameSlot(bookings[i], req) /\ IntervalsOverlap(bookings[i], req))
                => bookings[i].status \in Terminal)
        => /\ ~check_booking_conflict(bookings, req.game_id, req.booking_date,
                                      req.start_time, req.end_time, 0)
           /\ isTimeSlotAvailable(FilterRows(bookings, req.game_id, req.booking_date),
                                  req.start_time, req.end_time)
           /\ LET slot == [start |-> req.start_time, end |-> req.end_time,
                           duration |-> ParseTime(req.end_time)
                                            - ParseTime(req.start_time)]
              IN  /\ slot \in generateTimeSlots
                  /\ SlotIsFree(FilterRows(bookings, req.game_id, req.booking_date),
                                slot)

\* An interval held by a booking that became canceled, no_show or
\* completed has been booked again
C11_SlotBookedAgain ==
    \E i, j \in DOMAIN bookings :
        /\ i < j
        /\ bookings[i].status \in Terminal
        /\ bookings[j].status \in Active
        /\ SameSlot(bookings[i], bookings[j])
        /\ IntervalsOverlap(bookings[i], bookings[j])

----------------------------------------------------------------------------
(* Properties of the booking page's conflict test *)

ConflictMessage == "Selected time conflicts with an existing booking"

\* The real-time span of an interval under 24/7 operation, in minutes from
\* day 0: an end not after the start belongs to the next calendar day
RealStart(r) == r.booking_date * MinutesPerDay + ParseTime(r.start_time)

RealEnd(r) ==
    r.booking_date * MinutesPerDay
        + (IF ParseTime(r.end_time) <= ParseTime(r.start_time)
           THEN ParseTime(r.end_time) + MinutesPerDay
           ELSE ParseTime(r.end_time))

SharesAnInstant(a, b) == RealStart(a) < RealEnd(b) /\ RealStart(b) < RealEnd(a)

\* C9: under 24/7 operation, whenever the candidate of the form and an
\* active booking of the same game share an instant of real time, the page's
\* isTimeSlotAvailable, its validateTimeSelection and the check inside
\* createBooking all report a conflict.
C9_NoFalseNegatives ==
    (pageSettings # <<>> /\ pageSettings[1].is_24_7 /\ FormComplete)
        => \A i \in DOMAIN bookings :
               (/\ bookings[i].status \in Active
                /\ bookings[i].game_id = formData.gameId
                /\ SharesAnInstant(FormRequest, bookings[i]))
               => /\ ~isTimeSlotAvailable(existingBookings,
                                          formData.startTime, formData.endTime)
                  /\ \E k \in DOMAIN existingBookings :
                         ValidateConflict(formData.startTime, formData.endTime,
                                          existingBookings[k])
                  /\ checkBookingConflict(TRUE, FormRequest)

DayOrdered(b) == ParseTime(b.start_time) < ParseTime(b.end_time)

\* s < be and bs < e for some booking of the list
OverlapsSome(existing, s, e) ==
    \E i \in DOMAIN existing :
        /\ ParseTime(s) < ParseTime(existing[i].end_time)
        /\ ParseTime(existing[i].start_time) < ParseTime(e)

\* C10: for every candidate [s, e) with s < e among the page's time options
\* and every list of fetched bookings with bs < be, the three-clause test
\* of isTimeSlotAvailable and of validateTimeSelection reports a conflict
\* exactly when some booking has s < be and bs < e; and the timeError the
\* page shows for such a candidate of valid duration is the conflict
\* message exactly in that case.
C10_ThreeClauseIsOverlap ==
    (pageSettings # <<>> /\ \A i \in DOMAIN existingBookings :
                               DayOrdered(existingBookings[i]))
        => /\ \A s, e \in Range(generateTimeOptions(pageSettings)) :
                  ParseTime(s) < ParseTime(e)
                      => /\ (~isTimeSlotAvailable(existingBookings, s, e))
                                = OverlapsSome(existingBookings, s, e)
                         /\ (\E i \in DOMAIN existingBookings :
                                 ValidateConflict(s, e, existingBookings[i]))
                                = OverlapsSome(existingBookings, s, e)
           /\ (/\ FormComplete
               /\ ParseTime(formData.startTime) < ParseTime(formData.endTime)
               /\ timeError \in {"", ConflictMessage})
                  => (timeError = ConflictMessage)
                         = OverlapsSome(existingBookings,
                                        formData.startTime, formData.endTime)

\* A candidate that ends where a fetched booking starts is selected and
\* the page reports no conflict
C10_BoundaryTouchAccepted ==
    /\ FormComplete
    /\ pageSettings # <<>>
    /\ timeError = ""
    /\ \A i \in DOMAIN existingBookings : DayOrdered(existingBookings[i])
    /\ \E i \in DOMAIN existingBookings :
           existingBookings[i].start_time = formData.endTime
    /\ ParseTime(formData.startTime) < ParseTime(formData.endTime)

----------------------------------------------------------------------------
(* Properties of the cost and of the time options *)

\* The duration of (s, e) in minutes by the overnight-wrap rule: e - s,
\* plus a day when the venue is open around the clock and e <= s
WrapDuration(is_24_7, s, e) ==
    ParseTime(e) - ParseTime(s)
        + (IF is_24_7 /\ ParseTime(e) <= ParseTime(s) THEN MinutesPerDay ELSE 0)

C16_CostMonotone ==
    (FormComplete /\ selectedGame.price_per_hour > 0)
        => \A s, e \in CostTimes :
               WrapDuration(pageSettings[1].is_24_7, s, e)
                   <= WrapDuration(pageSettings[1].is_24_7,
                                   formData.startTime, formData.endTime)
               => calculateCost(selectedGame, pageSettings, s, e) <= estimatedCost

\* An overnight selection under 24/7 operation with a positive cost
C16_OvernightCostShown ==
    /\ FormComplete
    /\ pageSettings[1].is_24_7
    /\ ParseTime(formData.endTime) < ParseTime(formData.startTime)
    /\ estimatedCost > 0

\* num / den rounded to the nearest integer, halves up: the q with
\* q - 1/2 <= num / den < q + 1/2
RoundHalfUp(num, den) ==
    CHOOSE q \in 0..(num \div den + 1) :
        /\ (2 * q - 1) * den <= 2 * num
        /\ 2 * num < (2 * q + 1) * den

\* C17: for a positive-duration interval the cost is price_per_hour *
\* minutes / 60 rounded to the nearest whole unit, halves rounded up.
C17_CostIsRoundedProduct ==
    (/\ FormComplete
     /\ selectedGame # NoGame
     /\ WrapDuration(pageSettings[1].is_24_7, formData.startTime, formData.endTime) > 0)
        => estimatedCost =
               RoundHalfUp(selectedGame.price_per_hour
                               * WrapDuration(pageSettings[1].is_24_7,
                                              formData.startTime, formData.endTime),
                           60)

\* Price 500 and 14:00-15:30 shows 750
C17_Example750 ==
    /\ selectedGame.price_per_hour = 500
    /\ formData.startTime = <<49, 52, 58, 48, 48>>
    /\ formData.endTime = <<49, 53, 58, 51, 48>>
    /\ estimatedCost = 750

IsDigit(c) == c \in 48..57

\* "HH:MM": two digits, a colon, two digits
IsHHMM(str) ==
    /\ Len(str) = 5
    /\ IsDigit(str[1]) /\ IsDigit(str[2]) /\ str[3] = 58
    /\ IsDigit(str[4]) /\ IsDigit(str[5])

\* C14: generateTimeOptions lists, ascending and as HH:MM, exactly the
\* times first + k * booking_slot_duration before the limit, where first
\* and limit are opening_time and closing_time, or 0 and 1440 under 24/7
\* operation (then 1440 / booking_slot_duration times).
C14_TimeOptionsExact ==
    pageSettings # <<>>
        => LET ps == pageSettings[1]
               opts == generateTimeOptions(pageSettings)
               first == IF ps.is_24_7 THEN 0 ELSE ParseTime(ps.opening_time)
               limit == IF ps.is_24_7 THEN MinutesPerDay ELSE ParseTime(ps.closing_time)
           IN  /\ \A k \in DOMAIN opts :
                      /\ IsHHMM(opts[k])
                      /\ ParseTime(opts[k]) = first + (k - 1) * ps.booking_slot_duration
                      /\ ParseTime(opts[k]) < limit
               /\ first + Len(opts) * ps.booking_slot_duration >= limit
               /\ ps.is_24_7 => Len(opts) * ps.booking_slot_duration = MinutesPerDay

\* Opening 06:00, closing 22:00, slot 30: the first option is 06:00 and
\* the last is 21:30
C14_ExampleFirstLast ==
    /\ pageSettings # <<>>
    /\ ~pageSettings[1].is_24_7
    /\ pageSettings[1].opening_time = <<48, 54, 58, 48, 48>>
    /\ pageSettings[1].closing_time = <<50, 50, 58, 48, 48>>
    /\ pageSettings[1].booking_slot_duration = 30
    /\ LET opts == generateTimeOptions(pageSettings)
       IN  /\ opts[1] = <<48, 54, 58, 48, 48>>
           /\ opts[Len(opts)] = <<50, 49, 58, 51, 48>>
    /\ formData.startTime # EmptyString

----------------------------------------------------------------------------
(* Properties of the booking page under saved settings *)

\* The selection is complete, the venue is not open around the clock and
\* the end is not after the start
ZeroLengthSelection ==
    /\ FormComplete
    /\ pageSettings # <<>>
    /\ ~pageSettings[1].is_24_7
    /\ StrLeq(formData.endTime, formData.startTime)

\* C13: a selection of duration 0 or less (not 24/7, end_time <= start_time)
\* shows cost 0 and is never submitted: no step from it inserts a booking,
\* whatever settings row the page holds.
C13_ZeroLengthNeverSubmitted ==
    [][ZeroLengthSelection => (estimatedCost = 0 /\ bookings' = bookings)]_vars

\* C15: for the chosen start time s the End Time select offers exactly the
\* generated times t whose duration (t - s, plus a day under 24/7 when
\* t <= s) lies in [min_booking_duration, max_booking_duration], and no
\* t <= s when the venue is not open around the clock.
C15_EndOptionsExact ==
    (pageSettings # <<>> /\ formData.startTime # EmptyString)
        => EndTimeOptions(pageSettings, formData.startTime)
             = {t \in Range(generateTimeOptions(pageSettings)) :
                  LET d == WrapDuration(pageSettings[1].is_24_7, formData.startTime, t)
                  IN  /\ d >= pageSettings[1].min_booking_duration
                      /\ d <= pageSettings[1].max_booking_duration
                      /\ (pageSettings[1].is_24_7 \/ StrLess(formData.startTime, t))}

----------------------------------------------------------------------------
(* Properties of the settings validation and of the stored row *)

\* The rules a settings record violates, each named by its field
ViolatedRules(s) ==
    {rule \in {"times", "advance", "slot", "min", "max", "order", "deadline"} :
        \/ /\ rule = "times"
           /\ ~s.is_24_7 /\ s.opening_time # EmptyString /\ s.closing_time # EmptyString
           /\ ~(ParseTime(s.opening_time) < ParseTime(s.closing_time))
        \/ rule = "advance" /\ s.advance_booking_days \notin 1..30
        \/ rule = "slot" /\ s.booking_slot_duration \notin {15, 30, 60}
        \/ rule = "min" /\ s.min_booking_duration \notin 30..(8 * 60)
        \/ rule = "max" /\ s.max_booking_duration \notin 60..(12 * 60)
        \/ rule = "order" /\ ~(s.min_booking_duration < s.max_booking_duration)
        \/ rule = "deadline" /\ s.cancellation_deadline \notin 0..48}

\* C18: validateSettings finds the settings valid (no error) if and only
\* if no rule is violated, for every value of each field, 0 included.
C18_ValidIffNoRuleViolated ==
    (errors = validateSettings(formSettings))
        => ((errors = <<>>) <=> (ViolatedRules(formSettings) = {}))

\* C19: validateSettings collects one message per violated rule: the
\* number of errors equals the number of violated rules.
C19_OneErrorPerViolatedRule ==
    (errors = validateSettings(formSettings))
        => Len(errors) = Cardinality(ViolatedRules(formSettings))

\* C20: after any sequence of saves and resets the stored row has
\* opening_time < closing_time unless is_24_7, min_booking_duration <
\* max_booking_duration, and a slot duration of 15, 30 or 60.
C20_StoredRowValid ==
    /\ ~settings.is_24_7 =>
           ParseTime(settings.opening_time) < ParseTime(settings.closing_time)
    /\ settings.min_booking_duration < settings.max_booking_duration
    /\ settings.booking_slot_duration \in {15, 30, 60}

\* C21: when validation of the edited settings fails in handleSave,
\* updateSettings is not called: no field of the stored row changes.
C21_RejectedSaveLeavesRow ==
    [][validateSettings(formSettings') # <<>> => settings' = settings]_vars

\* A save was rejected after an earlier one had been stored
C21_RejectedAfterStored ==
    /\ errors # <<>>
    /\ settings # DefaultSettings
    /\ settings # formSettings

----------------------------------------------------------------------------
(* Properties of the settings table *)

\* C22: starting with no row or one row, after any interleaving of
\* concurrent updateSettings / resetToDefaults calls the system_settings
\* table holds at most one row.
C22_SettingsSingleton == Len(settingsTable) <= 1

\* C23: when no settings row exists, reading the settings yields a
\* NotFound error, not a settings value: the booking page holds no
\* settings while the table is empty.
C23_NoRowNoSettings == (settingsTable = <<>>) => pageSettings = <<>>

----------------------------------------------------------------------------
(* Properties of the booking date *)

\* C24: every booking created through the booking page is dated at most
\* settings.advance_booking_days days after the day it is created.
C24_WithinAdvanceDays ==
    [][Len(bookings') > Len(bookings)
         => bookings'[Len(bookings')].booking_date
              <= Today + settings.advance_booking_days]_vars

----------------------------------------------------------------------------
(* Frame of the status updates *)

----------------------------------------------------------------------------
(* Properties of what the booking page lets through *)

\* A fetched booking as an interval of the selected date
OnSelectedDate(b) ==
    [booking_date |-> formData.bookingDate,
     start_time |-> b.start_time, end_time |-> b.end_time]

\* C26: handleSubmit calls createBooking only for a selection that
\* validateTimeSelection accepted against the page's settings and
\* existingBookings: whenever the form is complete and timeError is empty,
\* the duration lies in [min_booking_duration, max_booking_duration] and
\* the selection overlaps no booking of existingBookings.
C26_SubmittedIsValidated ==
    (FormComplete /\ timeError = "")
        => /\ pageSettings # <<>>
           /\ LET d == WrapDuration(pageSettings[1].is_24_7,
                                    formData.startTime, formData.endTime)
              IN  /\ d >= pageSettings[1].min_booking_duration
                  /\ d <= pageSettings[1].max_booking_duration
           /\ \A k \in DOMAIN existingBookings :
                  ~SharesAnInstant(FormRequest, OnSelectedDate(existingBookings[k]))

\* C27: once no fetchExistingBookings request is outstanding,
\* existingBookings equals the active bookings of the currently selected
\* game and date, whatever the order in which the answers arrived.
C27_SettledFetchIsCurrent ==
    (fetches = {} /\ formData.gameId # "" /\ formData.bookingDate # 0)
        => existingBookings
             = FilterRows(bookings, formData.gameId, formData.bookingDate)

\* C28: for every start time the page marks as available at least one end
\* time is offered and selectable: a generated time within the duration
\* bounds for which isTimeSlotAvailable holds.
C28_AvailableStartHasEnd ==
    pageSettings # <<>>
        => \A start \in getAvailableStartTimes(pageSettings, existingBookings) :
               \E t \in EndTimeOptions(pageSettings, start) :
                   isTimeSlotAvailable(existingBookings, start, t)

\* C29: when the venue is not open around the clock, every end time
\* offered, for any start time of the select, is a generated slot time t
\* with opening_time <= t < closing_time, and the start is not before
\* opening_time: no selectable interval ends at or after closing_time.
C29_EndWithinHours ==
    (pageSettings # <<>> /\ ~pageSettings[1].is_24_7)
        => \A s \in Range(generateTimeOptions(pageSettings)) :
               \A t \in EndTimeOptions(pageSettings, s) :
                   /\ (ParseTime(t) - ParseTime(pageSettings[1].opening_time))
                          % pageSettings[1].booking_slot_duration = 0
                   /\ ParseTime(pageSettings[1].opening_time) <= ParseTime(s)
                   /\ ParseTime(pageSettings[1].opening_time) <= ParseTime(t)
                   /\ ParseTime(t) < ParseTime(pageSettings[1].closing_time)

\* The selected end is one of the offered ones, and the last slot before
\* closing is offered as an end for some start
C29_LastSlotOffered ==
    /\ pageSettings # <<>>
    /\ ~pageSettings[1].is_24_7
    /\ formData.startTime # EmptyString
    /\ formData.endTime \in EndTimeOptions(pageSettings, formData.startTime)
    /\ \E s \in Range(generateTimeOptions(pageSettings)) :
           \E t \in EndTimeOptions(pageSettings, s) :
               ParseTime(t) + pageSettings[1].booking_slot_duration
                   >= ParseTime(pageSettings[1].closing_time)

----------------------------------------------------------------------------
(* Properties of GameService.getAvailableTimeSlots *)

\* C30: every slot getAvailableTimeSlots returns starts at or after 06:00
\* on a 30-minute boundary, lasts 1 to 4 hours in half-hour steps, ends no
\* later than 22:00 and overlaps no pending or confirmed booking of that
\* game and date.
C30_SlotsWellFormed ==
    \A g \in Games, d \in Dates :
        \A slot \in getAvailableTimeSlots(bookings, g, d) :
            /\ ParseTime(slot.start) >= 6 * 60
            /\ ParseTime(slot.start) % 30 = 0
            /\ slot.duration \in {60 + 30 * k : k \in 0..6}
            /\ ParseTime(slot.end) = ParseTime(slot.start) + slot.duration
            /\ ParseTime(slot.end) <= 22 * 60
            /\ \A i \in DOMAIN bookings :
                   (/\ bookings[i].status \in Active
                    /\ bookings[i].game_id = g
                    /\ bookings[i].booking_date = d)
                   => ~(/\ ParseTime(slot.start) < ParseTime(bookings[i].end_time)
                        /\ ParseTime(bookings[i].start_time) < ParseTime(slot.end))

====
